---- MODULE Spec2Model ----
(***************************************************************************)
(* Model of download_datasets.py: load_config and                          *)
(* download_and_save_datasets.                                             *)
(*                                                                         *)
(* Strings are sequences of one-character strings, so that split, strip,   *)
(* replace and the newline-terminated file format are computed character   *)
(* by character.  Python values of mixed type are tagged records whose     *)
(* fields always hold values of one shape.                                 *)
(***************************************************************************)
EXTENDS Integers, Sequences, FiniteSets, TLC

VARIABLES
    pc,            \* position in download_and_save_datasets
    cfg_file,      \* what cfg/config.yaml holds (environment, never written)
    config,        \* local `config`
    dataset_names, \* local `dataset_names`
    idx,           \* number of items the for loop of line 17 has taken
    fetched,       \* identifiers handed to load_dataset, in call order
    dataset,       \* local `dataset`: split names in provider order
    train_data,    \* local `train_data`: the chosen split
    texts,         \* local `texts`
    served,        \* records the provider has yielded during the run
    wpos,          \* number of elements of `texts` the loop of line 50 has taken
    files,         \* the working directory: file name -> content
    out,           \* console output, one record per printed line
    item           \* loop variable `item` (record-selection specification)

vars == <<pc, cfg_file, config, dataset_names, idx, fetched, dataset,
          train_data, texts, served, wpos, files, out, item>>

(***************************************************************************)
(* Bounds.                                                                 *)
(***************************************************************************)
MaxCfgLen  == 3   \* characters in the hf_dataset_names string
MaxRecords == 2   \* records the provider yields in one run
MaxFields  == 2   \* fields of one record

(***************************************************************************)
(* Strings.                                                                *)
(***************************************************************************)
NL == "\n"

StrUpTo(A, n) == UNION {[1..k -> A] : k \in 0..n}

\* str.split(sep): the pieces between occurrences of sep; "" gives [""].
RECURSIVE SplitFrom(_, _, _, _)
SplitFrom(s, sep, i, cur) ==
    IF i > Len(s) THEN <<cur>>
    ELSE IF s[i] = sep THEN <<cur>> \o SplitFrom(s, sep, i + 1, <<>>)
    ELSE SplitFrom(s, sep, i + 1, Append(cur, s[i]))

Split(s, sep) == SplitFrom(s, sep, 1, <<>>)

IsSpace(c) == c \in {" ", NL}

\* str.strip(): drop leading and trailing whitespace.
RECURSIVE LStrip(_)
LStrip(s) ==
    IF s # <<>> /\ IsSpace(Head(s)) THEN LStrip(Tail(s)) ELSE s

RECURSIVE RStrip(_)
RStrip(s) ==
    IF s # <<>> /\ IsSpace(s[Len(s)]) THEN RStrip(SubSeq(s, 1, Len(s) - 1)) ELSE s

Strip(s) == RStrip(LStrip(s))

\* str.replace(old, new) for one-character old and new.
Replace(s, old, new) == [i \in 1..Len(s) |-> IF s[i] = old THEN new ELSE s[i]]

(***************************************************************************)
(* Configuration values (what yaml.safe_load can return).                  *)
(***************************************************************************)
StrVal(s)  == [t |-> "str",  s |-> s,    l |-> <<>>]
ListVal(l) == [t |-> "list", s |-> <<>>, l |-> l]
IntVal     == [t |-> "int",  s |-> <<>>, l |-> <<>>]
NoneVal    == [t |-> "none", s |-> <<>>, l |-> <<>>]

\* cfg/config.yaml cannot be opened or is not YAML
Unreadable == [kind |-> "unreadable", haskey |-> FALSE, val |-> NoneVal]
\* an empty file: safe_load returns None
EmptyDoc   == [kind |-> "none", haskey |-> FALSE, val |-> NoneVal]
\* a mapping without the key hf_dataset_names
NoKeyDoc   == [kind |-> "map", haskey |-> FALSE, val |-> NoneVal]
\* a mapping whose key hf_dataset_names holds v
KeyDoc(v)  == [kind |-> "map", haskey |-> TRUE, val |-> v]
\* a local not yet assigned
Unset      == [kind |-> "unset", haskey |-> FALSE, val |-> NoneVal]

CfgAlphabet == {"a", "/", "_", ",", " "}
CfgStrings  == StrUpTo(CfgAlphabet, MaxCfgLen)
\* YAML lists of identifiers: nothing trims or splits their elements
CfgLists    == {<<>>} \cup {Split(s, ",") : s \in StrUpTo(CfgAlphabet, MaxCfgLen - 1)}

ConfigFiles ==
    {Unreadable, EmptyDoc, NoKeyDoc, KeyDoc(IntVal), KeyDoc(NoneVal)}
      \cup {KeyDoc(StrVal(s)) : s \in CfgStrings}
      \cup {KeyDoc(ListVal(l)) : l \in CfgLists}

(***************************************************************************)
(* Records of a split: ordered mappings field name -> value.               *)
(***************************************************************************)
StrV(s) == [t |-> "str", v |-> s]
NumV    == [t |-> "int", v |-> <<"5">>]

FieldNames  == {"text", "content", "other", "n"}
FieldValues == {StrV(<<"a">>), StrV(<<"b", NL, "c">>), NumV}
Fields      == [key : FieldNames, value : FieldValues]

Records ==
    {r \in UNION {[1..k -> Fields] : k \in 0..MaxFields} :
        \A i, j \in 1..Len(r) : r[i].key = r[j].key => i = j}

NoItem == <<>>

\* `k in item`
HasKey(rec, k) == \E i \in 1..Len(rec) : rec[i].key = k
\* `item[k]`
Get(rec, k) == rec[CHOOSE i \in 1..Len(rec) : rec[i].key = k].value

IsStr(v) == v.t = "str"

\* lines 39-42: the first value of item.items() that is a str, if any
RECURSIVE FirstStr(_, _)
FirstStr(rec, i) ==
    IF i > Len(rec) THEN <<>>
    ELSE IF IsStr(rec[i].value) THEN <<rec[i].value>>
    ELSE FirstStr(rec, i + 1)

\* SelectText with the tests of lines 33 and 35 exchanged
SelectText_ContentFirst(rec) ==
    IF HasKey(rec, "content") THEN <<Get(rec, "content")>>
    ELSE IF HasKey(rec, "text") THEN <<Get(rec, "text")>>
    ELSE FirstStr(rec, 1)

\* lines 33-42: what one record appends to texts (nothing, or one value)
SelectText(rec) ==
    IF HasKey(rec, "text") THEN <<Get(rec, "text")>>
    ELSE IF HasKey(rec, "content") THEN <<Get(rec, "content")>>
    ELSE FirstStr(rec, 1)

(***************************************************************************)
(* What load_dataset returns: split names in provider order.  The records  *)
(* of a split are yielded one at a time by ExtractRecord.                  *)
(***************************************************************************)
SplitNames == {"train", "validation"}
Datasets ==
    {d \in UNION {[1..k -> SplitNames] : k \in 0..Cardinality(SplitNames)} :
        \A i, j \in 1..Len(d) : d[i] = d[j] => i = j}
NoSplit == ""

(***************************************************************************)
(* Console lines and output files.                                         *)
(***************************************************************************)
Line(k, name, n) == [k |-> k, name |-> name, n |-> n]

\* lines 45-46
SafeName(name)   == Replace(name, "/", "_")
OutputFile(name) == SafeName(name) \o <<".", "t", "x", "t">>

\* open(path, 'w'): create or truncate
Truncate(fs, path) ==
    [p \in DOMAIN fs \cup {path} |-> IF p = path THEN <<>> ELSE fs[p]]
\* f.write(data) on the file opened at path
WriteTo(fs, path, data) == [fs EXCEPT ![path] = @ \o data]

(***************************************************************************)
(* download_and_save_datasets                                              *)
(***************************************************************************)
Init ==
    /\ pc = "load"
    /\ cfg_file \in ConfigFiles
    /\ config = Unset
    /\ dataset_names = NoneVal
    /\ idx = 0
    /\ fetched = <<>>
    /\ dataset = <<>>
    /\ train_data = NoSplit
    /\ texts = <<>>
    /\ served = 0
    /\ wpos = 0
    /\ files = <<>>
    /\ out = <<>>
    /\ item = NoItem

\* loop variable of line 17
dataset_name == dataset_names.l[idx]
\* line 46
output_file == OutputFile(dataset_name)

\* the locals of one iteration go out of use when it ends: every one is
\* assigned again (lines 22, 26/28, 31, 50) before it is read
ForgetLocals ==
    /\ dataset' = <<>>
    /\ train_data' = NoSplit
    /\ texts' = <<>>
    /\ wpos' = 0

\* Raise without the handler of line 55: the exception leaves the function
Raise_Uncaught == pc' = "aborted"

\* An exception raised inside the try block of lines 20-53.
Raise == pc' = "except"
\* An exception raised outside it leaves download_and_save_datasets.
Abort == pc' = "aborted"

\* LoadConfig falling back to a default configuration when the file
\* cannot be read
LoadConfig_Swallow ==
    /\ pc = "load"
    /\ pc' = "names"
    /\ config' = IF cfg_file.kind = "unreadable"
                   THEN KeyDoc(StrVal(<<"a">>)) ELSE cfg_file
    /\ UNCHANGED <<cfg_file, dataset_names, idx, fetched, dataset, train_data,
                   texts, served, wpos, files, out, item>>

\* line 10, load_config: open and parse cfg/config.yaml
LoadConfig ==
    /\ pc = "load"
    /\ IF cfg_file.kind = "unreadable"
         THEN Abort /\ UNCHANGED config
         ELSE pc' = "names" /\ config' = cfg_file
    /\ UNCHANGED <<cfg_file, dataset_names, idx, fetched, dataset, train_data,
                   texts, served, wpos, files, out, item>>

\* Normalize without the strip() of line 15
Normalize_NoStrip(v) ==
    IF v.t = "str" THEN ListVal(Split(v.s, ",")) ELSE v

\* lines 14-15: a str is split on ',' and every piece stripped
Normalize(v) ==
    IF v.t = "str"
      THEN LET pieces == Split(v.s, ",")
           IN  ListVal([i \in 1..Len(pieces) |-> Strip(pieces[i])])
      ELSE v

\* lines 11-15: config['hf_dataset_names'] raises on None (TypeError) and on
\* a mapping without the key (KeyError)
GetNames ==
    /\ pc = "names"
    /\ IF config.kind = "map" /\ config.haskey
         THEN pc' = "for" /\ dataset_names' = Normalize(config.val)
         ELSE Abort /\ UNCHANGED dataset_names
    /\ UNCHANGED <<cfg_file, config, idx, fetched, dataset, train_data,
                   texts, served, wpos, files, out, item>>

\* lines 17-18: iter() raises TypeError on an int or None; otherwise the next
\* identifier is taken and announced, or the loop and the function end
ForNext ==
    /\ pc = "for"
    /\ IF dataset_names.t # "list"
         THEN Abort /\ UNCHANGED <<idx, out>>
         ELSE IF idx < Len(dataset_names.l)
           THEN /\ idx' = idx + 1
                /\ out' = Append(out, Line("Loading", dataset_names.l[idx + 1], 0))
                /\ pc' = "fetch"
           ELSE pc' = "done" /\ UNCHANGED <<idx, out>>
    /\ UNCHANGED <<cfg_file, config, dataset_names, fetched, dataset,
                   train_data, texts, served, wpos, files, item>>

\* line 22: load_dataset returns the splits or raises
LoadDataset ==
    /\ pc = "fetch"
    /\ fetched' = Append(fetched, dataset_name)
    /\ \/ Raise /\ UNCHANGED dataset
       \/ pc' = "split" /\ dataset' \in Datasets
    /\ UNCHANGED <<cfg_file, config, dataset_names, idx, train_data, texts,
                   served, wpos, files, out, item>>

\* `name in dataset`
HasSplit(d, name) == \E i \in 1..Len(d) : d[i] = name

\* SelectSplit without the test of line 25: always the first split
SelectSplit_FirstSplit ==
    /\ pc = "split"
    /\ IF Len(dataset) > 0
         THEN pc' = "extract" /\ train_data' = dataset[1]
         ELSE pc' = "except" /\ UNCHANGED train_data
    /\ texts' = <<>>
    /\ UNCHANGED <<cfg_file, config, dataset_names, idx, fetched, dataset,
                   served, wpos, files, out, item>>

\* lines 25-31: 'train' if present, else list(dataset.values())[0], which
\* raises IndexError when there is no split
SelectSplit ==
    /\ pc = "split"
    /\ IF HasSplit(dataset, "train")
         THEN pc' = "extract" /\ train_data' = "train"
         ELSE IF Len(dataset) > 0
           THEN pc' = "extract" /\ train_data' = dataset[1]
           ELSE Raise /\ UNCHANGED train_data
    /\ texts' = <<>>
    /\ UNCHANGED <<cfg_file, config, dataset_names, idx, fetched, dataset,
                   served, wpos, files, out, item>>

\* what a record of the split can append
Selections == {SelectText(rec) : rec \in Records}

\* lines 32-42, one iteration: the split yields a record
ExtractRecord ==
    /\ pc = "extract"
    /\ served < MaxRecords
    /\ \E sel \in Selections : texts' = texts \o sel
    /\ served' = served + 1
    /\ UNCHANGED <<pc, cfg_file, config, dataset_names, idx, fetched, dataset,
                   train_data, wpos, files, out, item>>

\* line 32: the iteration over the split raises (a record cannot be read)
ExtractRaise ==
    /\ pc = "extract"
    /\ Raise
    /\ UNCHANGED <<cfg_file, config, dataset_names, idx, fetched, dataset,
                   train_data, texts, served, wpos, files, out, item>>

\* line 32: the split is exhausted
ExtractDone ==
    /\ pc = "extract"
    /\ pc' = "open"
    /\ UNCHANGED <<cfg_file, config, dataset_names, idx, fetched, dataset,
                   train_data, texts, served, wpos, files, out, item>>

\* lines 45-49: open(output_file, 'w') creates or truncates the file, or
\* raises OSError
OpenFile ==
    /\ pc = "open"
    /\ \/ Raise /\ UNCHANGED files
       \/ pc' = "write" /\ files' = Truncate(files, output_file)
    /\ wpos' = 0
    /\ UNCHANGED <<cfg_file, config, dataset_names, idx, fetched, dataset,
                   train_data, texts, served, out, item>>

\* lines 50-51, one iteration: text + '\n' raises TypeError unless text is a
\* str; f.write may raise OSError; leaving the with block closes the file
WriteText ==
    /\ pc = "write"
    /\ wpos < Len(texts)
    /\ wpos' = wpos + 1
    /\ LET text == texts[wpos + 1]
       IN  IF ~IsStr(text)
             THEN Raise /\ UNCHANGED files
             ELSE \/ Raise /\ UNCHANGED files
                  \/ /\ files' = WriteTo(files, output_file, text.v \o <<NL>>)
                     /\ UNCHANGED pc
    /\ UNCHANGED <<cfg_file, config, dataset_names, idx, fetched, dataset,
                   train_data, texts, served, out, item>>

\* line 51, end of the with block: the file is closed
CloseFile ==
    /\ pc = "write"
    /\ wpos = Len(texts)
    /\ pc' = "saved"
    /\ UNCHANGED <<cfg_file, config, dataset_names, idx, fetched, dataset,
                   train_data, texts, served, wpos, files, out, item>>

\* line 53
Saved ==
    /\ pc = "saved"
    /\ out' = Append(out, Line("Saved", output_file, Len(texts)))
    /\ pc' = "for"
    /\ ForgetLocals
    /\ UNCHANGED <<cfg_file, config, dataset_names, idx, fetched, served,
                   files, item>>

\* lines 55-56
Except ==
    /\ pc = "except"
    /\ out' = Append(out, Line("Error", dataset_name, 0))
    /\ pc' = "for"
    /\ ForgetLocals
    /\ UNCHANGED <<cfg_file, config, dataset_names, idx, fetched, served,
                   files, item>>

Next ==
    \/ LoadConfig
    \/ GetNames
    \/ ForNext
    \/ LoadDataset
    \/ SelectSplit
    \/ ExtractRecord
    \/ ExtractRaise
    \/ ExtractDone
    \/ OpenFile
    \/ WriteText
    \/ CloseFile
    \/ Saved
    \/ Except

Spec == Init /\ [][Next]_vars

(***************************************************************************)
(* Record selection alone: lines 33-42 applied to every record.            *)
(***************************************************************************)
InitSelect ==
    /\ pc = "select"
    /\ item \in Records
    /\ texts = <<>>
    /\ cfg_file = NoKeyDoc
    /\ config = Unset
    /\ dataset_names = NoneVal
    /\ idx = 0
    /\ fetched = <<>>
    /\ dataset = <<>>
    /\ train_data = NoSplit
    /\ served = 0
    /\ wpos = 0
    /\ files = <<>>
    /\ out = <<>>

\* lines 33-42 on the record held by `item`
SelectItem ==
    /\ pc = "select"
    /\ texts' = texts \o SelectText(item)
    /\ pc' = "selected"
    /\ UNCHANGED <<cfg_file, config, dataset_names, idx, fetched, dataset,
                   train_data, served, wpos, files, out, item>>

NextSelect == SelectItem

SpecSelect == InitSelect /\ [][NextSelect]_vars

(***************************************************************************)
(* Vocabulary of the properties.                                           *)
(***************************************************************************)
\* positions in the body of the for loop of line 17
InBody == pc \in {"fetch", "split", "extract", "open", "write", "saved", "except"}

\* the lines printed at the end of an iteration (line 53 or line 56)
Outcomes == SelectSeq(out, LAMBDA ln : ln.k # "Loading")

\* iterations of the for loop that have ended
Completed == IF InBody THEN idx - 1 ELSE idx

\* the lines of a text file: the segments its newlines terminate, and a
\* last unterminated segment if there is one
RECURSIVE LinesFrom(_, _)
LinesFrom(content, cur) ==
    IF content = <<>> THEN (IF cur = <<>> THEN <<>> ELSE <<cur>>)
    ELSE IF Head(content) = NL THEN <<cur>> \o LinesFrom(Tail(content), <<>>)
    ELSE LinesFrom(Tail(content), Append(cur, Head(content)))

FileLines(content) == LinesFrom(content, <<>>)

\* the string values among the selected values, in order
StringTexts == SelectSeq(texts, LAMBDA v : v.t = "str")

\* the current iteration has created its output file and the operating
\* system refused no write: the file was written in full (line 53 is next),
\* or line 51 raised on a value that is not a string
FileProduced ==
    \/ pc = "saved"
    \/ pc = "except" /\ wpos > 0 /\ texts[wpos].t # "str"

\* the configuration is a mapping whose hf_dataset_names is a string
StringConfig ==
    cfg_file.kind = "map" /\ cfg_file.haskey /\ cfg_file.val.t = "str"

\* the k-th comma-separated piece of s, read off the comma positions
CommaPos(s) == {i \in 1..Len(s) : s[i] = ","}
CommaAt(s, k) ==
    IF k = 0 THEN 0
    ELSE IF k > Cardinality(CommaPos(s)) THEN Len(s) + 1
    ELSE CHOOSE i \in CommaPos(s) : Cardinality({j \in CommaPos(s) : j <= i}) = k
PieceAt(s, k) == SubSeq(s, CommaAt(s, k - 1) + 1, CommaAt(s, k) - 1)

\* p without its leading and trailing blanks
Trimmed(p) ==
    LET solid == {i \in 1..Len(p) : p[i] # " "}
    IN  IF solid = {} THEN <<>>
        ELSE SubSeq(p, CHOOSE i \in solid : \A j \in solid : i <= j,
                       CHOOSE i \in solid : \A j \in solid : j <= i)

TrimmedPieces(s) ==
    [k \in 1..(Cardinality(CommaPos(s)) + 1) |-> Trimmed(PieceAt(s, k))]

NonEmptyPieces(s) == SelectSeq(TrimmedPieces(s), LAMBDA p : p # <<>>)

(***************************************************************************)
(* C1.  Whatever fails while one identifier is processed (the fetch, the   *)
(* split selection, the iteration over the records, the opening or the     *)
(* writing of the file) is caught at the boundary of that identifier: the  *)
(* next step prints an error line naming the identifier and returns to the *)
(* loop head; the function is never left by an exception once the loop has *)
(* a sequence to run over; every ended iteration has printed exactly one   *)
(* closing line about its own identifier; and the run stops only at the    *)
(* end of the sequence, with every identifier attempted.                   *)
(***************************************************************************)
C1_Isolated ==
    dataset_names.t = "list" =>
        LET names == dataset_names.l
        IN  /\ pc # "aborted"
            /\ pc \notin {"done", "aborted"} => ENABLED Next
            /\ Len(fetched) = (IF pc = "fetch" THEN idx - 1 ELSE idx)
            /\ \A i \in 1..Len(fetched) : fetched[i] = names[i]
            /\ Len(Outcomes) = Completed
            /\ \A i \in 1..Len(Outcomes) :
                 \/ Outcomes[i] = Line("Error", names[i], 0)
                 \/ /\ Outcomes[i].k = "Saved"
                    /\ Outcomes[i].name = OutputFile(names[i])
            /\ pc = "done" => fetched = names

C1_Caught ==
    pc = "except" =>
        /\ pc' = "for"
        /\ out' = Append(out, Line("Error", dataset_names.l[idx], 0))
        /\ idx' = idx /\ dataset_names' = dataset_names

C1_FailureIsolation == [](C1_Isolated) /\ [][C1_Caught]_vars

\* a finished run in which an identifier failed and a later one was saved
C1_Witness ==
    /\ pc = "done"
    /\ \E i, j \in 1..Len(out) :
         i < j /\ out[i].k = "Error" /\ out[j].k = "Saved"

(***************************************************************************)
(* C2.  For every record, exactly one of four outcomes applies: the value  *)
(* of field `text` is selected if the record has that field; else the      *)
(* value of field `content` if it has that one; else the value of the      *)
(* first field, in the record's order, whose value is a string; else       *)
(* nothing is selected and the record adds nothing to the corpus.          *)
(***************************************************************************)
C2_ByText ==
    \E i \in 1..Len(item) : item[i].key = "text" /\ texts = <<item[i].value>>

C2_ByContent ==
    /\ \A i \in 1..Len(item) : item[i].key # "text"
    /\ \E i \in 1..Len(item) : item[i].key = "content" /\ texts = <<item[i].value>>

C2_ByFirstString ==
    /\ \A i \in 1..Len(item) : item[i].key \notin {"text", "content"}
    /\ \E i \in 1..Len(item) :
         /\ item[i].value.t = "str"
         /\ \A j \in 1..(i - 1) : item[j].value.t # "str"
         /\ texts = <<item[i].value>>

C2_Skipped ==
    /\ \A i \in 1..Len(item) : item[i].key \notin {"text", "content"}
    /\ \A i \in 1..Len(item) : item[i].value.t # "str"
    /\ texts = <<>>

C2_TextSelection ==
    pc = "selected" =>
        Cardinality({c \in {"text", "content", "first", "skip"} :
            CASE c = "text"    -> C2_ByText
              [] c = "content" -> C2_ByContent
              [] c = "first"   -> C2_ByFirstString
              [] OTHER         -> C2_Skipped}) = 1

\* neither `text` nor `content`, and the first field is not a string but a
\* later one is: the later one was selected
C2_Witness ==
    /\ pc = "selected"
    /\ Len(item) = 2
    /\ item[1].value.t # "str"
    /\ C2_ByFirstString

(***************************************************************************)
(* C8.  The split read is "train" whenever the provider returned a split   *)
(* of that name, and otherwise the first split in the provider's order; a  *)
(* dataset without any split raises inside the handler of its identifier   *)
(* (the next step is the error line, the run goes on).                     *)
(***************************************************************************)
C8_Chosen ==
    pc \in {"extract", "open", "write", "saved"} =>
        /\ Len(dataset) > 0
        /\ train_data = IF \E i \in 1..Len(dataset) : dataset[i] = "train"
                          THEN "train" ELSE dataset[1]

C8_NoSplit ==
    (pc = "split" /\ dataset = <<>>) => (pc' = "except" /\ fetched' = fetched)

C7_NonEmptyOnly ==
    (StringConfig /\ pc = "done") => fetched = NonEmptyPieces(cfg_file.val.s)

(***************************************************************************)
(* C7, amended.  When hf_dataset_names is a string, the identifiers        *)
(* fetched are its comma-separated pieces, each trimmed, one fetch per     *)
(* piece in the order of the string, the pieces that are empty or blank    *)
(* included (as the empty identifier); at every moment the fetches made    *)
(* are a prefix of that sequence, whatever the earlier ones did, and a     *)
(* finished run has made them all.                                         *)
(***************************************************************************)
C7_FetchPerPiece ==
    (StringConfig /\ pc \notin {"load", "names"}) =>
        LET pieces == TrimmedPieces(cfg_file.val.s)
        IN  /\ Len(fetched) = (IF pc = "fetch" THEN idx - 1 ELSE idx)
            /\ Len(fetched) <= Len(pieces)
            /\ \A i \in 1..Len(fetched) : fetched[i] = pieces[i]
            /\ pc = "done" => fetched = pieces

\* a finished run over a string with a blank to trim and an empty piece
C7_Witness ==
    /\ StringConfig
    /\ pc = "done"
    /\ \E i \in 1..Len(cfg_file.val.s) : cfg_file.val.s[i] = " "
    /\ \E i, j \in 1..Len(fetched) : fetched[i] = <<>> /\ fetched[j] # <<>>

(***************************************************************************)
(* C9, as stated.  Only a configuration file that cannot be read or parsed *)
(* aborts the run: once it is parsed, the run never aborts.                *)
(***************************************************************************)
C9_OnlyUnreadableAborts == pc = "aborted" => cfg_file.kind = "unreadable"

(***************************************************************************)
(* C9, amended.  The run aborts only when the configuration file cannot be *)
(* read or parsed, when the parsed document is not a mapping holding the   *)
(* key hf_dataset_names (an empty file included), or when the value of     *)
(* that key is neither a string nor a list; in each of these cases no      *)
(* dataset is ever fetched, no file written and no line printed, and in    *)
(* every other case the run never aborts.                                  *)
(***************************************************************************)
C9_BadConfig ==
    \/ cfg_file.kind # "map"
    \/ ~cfg_file.haskey
    \/ cfg_file.val.t \notin {"str", "list"}

C9_AbortOnlyOnBadConfig ==
    /\ pc = "aborted" => C9_BadConfig
    /\ C9_BadConfig =>
         /\ pc \in {"load", "names", "for", "aborted"}
         /\ fetched = <<>>
         /\ files = <<>>
         /\ out = <<>>

\* the run has aborted on a parsed configuration without the key
C9_Witness == pc = "aborted" /\ cfg_file = NoKeyDoc

(***************************************************************************)
(* C3.  Whenever an identifier has produced its output file, the number of *)
(* lines of the file equals the number of records of the split that        *)
(* yielded a string value.                                                 *)
(***************************************************************************)
C3_LineCount ==
    FileProduced => Len(FileLines(files[output_file])) = Len(StringTexts)

(***************************************************************************)
(* C4.  Whenever an identifier has produced its output file, the lines of  *)
(* the file, without their newlines, are the string values selected from   *)
(* the records, one line per value, in the order of the split, and the     *)
(* file ends with a newline unless it is empty.                            *)
(***************************************************************************)
C4_RoundTrip ==
    FileProduced =>
        LET content == files[output_file]
        IN  /\ FileLines(content) = [i \in 1..Len(StringTexts) |-> StringTexts[i].v]
            /\ content # <<>> => content[Len(content)] = NL

(***************************************************************************)
(* C5.  Between iterations and at the end of the run, every file in the    *)
(* working directory is the output file of an identifier whose processing  *)
(* printed a "Saved" line: an identifier that printed an error left none.  *)
(***************************************************************************)
C5_FilesOnlyOnSuccess ==
    pc \in {"for", "done"} =>
        \A path \in DOMAIN files :
            \E i \in 1..Len(out) : out[i].k = "Saved" /\ out[i].name = path

(***************************************************************************)
(* C6.  Two distinct identifiers of one run are never saved to the same    *)
(* output file.                                                            *)
(***************************************************************************)
C6_OneFilePerIdentifier ==
    \A i, j \in 2..Len(out) :
        (/\ out[i].k = "Saved" /\ out[j].k = "Saved"
         /\ out[i - 1].name # out[j - 1].name)
            => out[i].name # out[j].name

(***************************************************************************)
(* C10.  At every point of the record loop, every element of the corpus    *)
(* is a string.                                                            *)
(***************************************************************************)
C10_OnlyStrings == \A i \in 1..Len(texts) : texts[i].t = "str"

====
